---- MODULE Spec2Model ----
(***************************************************************************)
(* ThreadPool of tasks/cpp_expert_thread_pool/workspace (thread_pool.h,    *)
(* thread_pool.cpp): a fixed set of worker threads, a FIFO of type-erased  *)
(* tasks guarded by mutex_, a condition variable cv_, the stop_ flag, and  *)
(* one std::packaged_task / std::future pair per accepted task.            *)
(*                                                                         *)
(* Threads of the model: the owner (runs the constructor and later the     *)
(* destructor), the workers (workerLoop), one producer per task (a call of *)
(* enqueue), and the holders of the futures (get).                         *)
(*                                                                         *)
(* Granularity.  tasks_ is only touched with mutex_ held, so acquiring     *)
(* mutex_ is folded into the first access that follows it and releasing it *)
(* into the last access that precedes it.  stop_ is written by the         *)
(* destructor without mutex_; every read of stop_ is a step of its own or  *)
(* the first access of its step, so each order of the racing read and      *)
(* write is an interleaving of the model.                                  *)
(***************************************************************************)
EXTENDS Integers, Sequences, FiniteSets, TLC

\* Largest thread count requested from the constructor.
MaxThreads == 2
\* Number of enqueue calls; call t is made by its own producer thread.
NumTasks == 2
\* Largest number of get() calls made on one future.
MaxGets == 2

Workers == 1..MaxThreads
Tasks == 1..NumTasks
NoTask == 0
NoOwner == 0

VARIABLES
    requested,   \* the constructor's threadCount argument
    owner,       \* position of the owning thread: constructor, live pool, destructor
    workers_,    \* workers_: the spawned threads, in spawn order
    wstate,      \* per worker: "none" | "joinable" | "detached" (its std::thread)
    tasks_,      \* tasks_: the queue, front first
    mutex_,      \* thread holding mutex_, NoOwner when free
    waiters,     \* threads blocked inside cv_.wait
    stop_,       \* stop_
    wpc,         \* per worker: position in workerLoop
    wtask,       \* per worker: the local `task` (NoTask when empty)
    ppc,         \* per enqueue call: position in enqueue
    chan,        \* per task: shared state of the packaged_task
    handle,      \* per task: the std::future given to the caller
    gets,        \* per task: what each get() call on the future returned
    runs,        \* per task: number of times the callable was executed
    pushOrder,   \* history: tasks in the order of emplace
    runningAtDtor, \* history: tasks being executed when ~ThreadPool began
    ub           \* a worker used the pool's members after they were destroyed
\* owner: "ctor" -> "live" -> "d_notify" -> "d_detach" -> "d_reclaim" -> "done";
\* "failed" when the constructor threw, "aborted" when the process was ended.

vars == << requested, owner, workers_, wstate, tasks_, mutex_, waiters, stop_,
           wpc, wtask, ppc, chan, handle, gets, runs, pushOrder,
           runningAtDtor, ub >>

poolVars == << requested, owner, workers_, wstate >>
futVars  == << handle, gets >>

\* mutex_ identity of a producer thread (workers use their own index).
ProducerId(t) == MaxThreads + t

\* The process has not been ended by std::terminate or a fault.
Up == owner # "aborted"

\* The pool object and its members exist and the process is up.
Alive == owner \notin {"done", "failed", "aborted"}

----------------------------------------------------------------------------
(* Constructor *)

\* thread_pool.cpp:4-6: a request for zero threads is coerced to one.
CoerceKeepZero(n) == n
Coerce(n) == IF n = 0 THEN 1 ELSE n

\* ThreadPool::size
size == Len(workers_)

Init ==
    /\ requested \in 0..MaxThreads
    /\ owner = "ctor"
    /\ workers_ = << >>
    /\ wstate = [w \in Workers |-> "none"]
    /\ tasks_ = << >>
    /\ mutex_ = NoOwner
    /\ waiters = {}
    /\ stop_ = FALSE
    /\ wpc = [w \in Workers |-> "unborn"]
    /\ wtask = [w \in Workers |-> NoTask]
    /\ ppc = [t \in Tasks |-> "idle"]
    /\ chan = [t \in Tasks |-> "none"]
    /\ handle = [t \in Tasks |-> "none"]
    /\ gets = [t \in Tasks |-> << >>]
    /\ runs = [t \in Tasks |-> 0]
    /\ pushOrder = << >>
    /\ runningAtDtor = {}
    /\ ub = FALSE

\* thread_pool.cpp:7-9, one iteration: the new thread starts workerLoop.
CtorSpawn ==
    /\ owner = "ctor"
    /\ Len(workers_) < Coerce(requested)
    /\ LET w == Len(workers_) + 1 IN
         /\ workers_' = Append(workers_, w)
         /\ wstate' = [wstate EXCEPT ![w] = "joinable"]
         /\ wpc' = [wpc EXCEPT ![w] = "top"]
    /\ UNCHANGED << requested, owner, tasks_, mutex_, waiters, stop_, wtask, ppc,
                    chan, runs, pushOrder, runningAtDtor, ub >>
    /\ UNCHANGED futVars

\* thread_pool.cpp:7-10: the loop ends and the constructor returns.
CtorDone ==
    /\ owner = "ctor"
    /\ Len(workers_) = Coerce(requested)
    /\ owner' = "live"
    /\ UNCHANGED << requested, workers_, wstate, tasks_, mutex_, waiters, stop_,
                    wpc, wtask, ppc, chan, runs, pushOrder, runningAtDtor, ub >>
    /\ UNCHANGED futVars

\* How the exception of a failed thread start leaves the constructor:
\* unwinding destroys workers_ (thread_pool.h:41), and the destructor of a
\* std::thread that is still joinable calls std::terminate.
UnwindOutcome(ws) ==
    IF \E w \in Workers : ws[w] = "joinable" THEN "aborted" ELSE "failed"

\* thread_pool.cpp:8: starting the next thread fails (std::system_error).
CtorSpawnFail ==
    /\ owner = "ctor"
    /\ Len(workers_) < Coerce(requested)
    /\ owner' = UnwindOutcome(wstate)
    /\ UNCHANGED << requested, workers_, wstate, tasks_, mutex_, waiters, stop_,
                    wpc, wtask, ppc, chan, runs, pushOrder, runningAtDtor, ub >>
    /\ UNCHANGED futVars

----------------------------------------------------------------------------
(* enqueue *)

\* thread_pool.h:27: the test that rejects a submission.
EnqueueRejectsNever(s) == FALSE
EnqueueRejects(s) == s

\* mutex_.lock() goes through only when no thread holds mutex_.
MutexFreeAlways(m) == TRUE
MutexFree(m) == m = NoOwner

\* thread_pool.h:21-26: the caller enters enqueue, the packaged_task and
\* its shared state are created, mutex_ is acquired.
EnqueueLock(t) ==
    /\ owner \in {"live", "d_notify", "d_detach", "d_reclaim"}
    /\ ppc[t] = "idle"
    /\ MutexFree(mutex_)
    /\ mutex_' = ProducerId(t)
    /\ chan' = [chan EXCEPT ![t] = "empty"]
    /\ ppc' = [ppc EXCEPT ![t] = "e_check"]
    /\ UNCHANGED << tasks_, waiters, stop_, wpc, wtask, runs, pushOrder,
                    runningAtDtor, ub >>
    /\ UNCHANGED poolVars
    /\ UNCHANGED futVars

\* thread_pool.h:27-31: throw (the packaged_task dies with the call) or
\* emplace; either way the lock guard releases mutex_.
EnqueueCheck(t) ==
    /\ Alive
    /\ ppc[t] = "e_check"
    /\ IF EnqueueRejects(stop_)
         THEN /\ ppc' = [ppc EXCEPT ![t] = "rejected"]
              /\ chan' = [chan EXCEPT ![t] = "none"]
              /\ UNCHANGED << tasks_, pushOrder >>
         ELSE /\ tasks_' = Append(tasks_, t)
              /\ pushOrder' = Append(pushOrder, t)
              /\ ppc' = [ppc EXCEPT ![t] = "e_notify"]
              /\ UNCHANGED chan
    /\ mutex_' = NoOwner
    /\ UNCHANGED << waiters, stop_, wpc, wtask, runs, runningAtDtor, ub >>
    /\ UNCHANGED poolVars
    /\ UNCHANGED futVars

\* cv_.notify_one: the sets of threads it may unblock.
NotifyOneNobody(ws) == {{}}
NotifyOne(ws) == IF ws = {} THEN {{}} ELSE {{w} : w \in ws}

\* thread_pool.h:32
EnqueueNotify(t) ==
    /\ Alive
    /\ ppc[t] = "e_notify"
    /\ \E woken \in NotifyOne(waiters) :
         /\ waiters' = waiters \ woken
         /\ wpc' = [w \in Workers |-> IF w \in woken THEN "woken" ELSE wpc[w]]
    /\ ppc' = [ppc EXCEPT ![t] = "e_future"]
    /\ UNCHANGED << tasks_, mutex_, stop_, wtask, chan, runs, pushOrder,
                    runningAtDtor, ub >>
    /\ UNCHANGED poolVars
    /\ UNCHANGED futVars

\* thread_pool.h:33: the future is handed to the caller.
EnqueueReturn(t) ==
    /\ Alive
    /\ ppc[t] = "e_future"
    /\ handle' = [handle EXCEPT ![t] = "valid"]
    /\ ppc' = [ppc EXCEPT ![t] = "done"]
    /\ UNCHANGED << tasks_, mutex_, waiters, stop_, wpc, wtask, chan, gets,
                    runs, pushOrder, runningAtDtor, ub >>
    /\ UNCHANGED poolVars

----------------------------------------------------------------------------
(* workerLoop *)

\* thread_pool.cpp:38-39: the task taken from the queue and what is left.
FrontLast(q) == q[Len(q)]
Front(q) == Head(q)

PopRestKeep(q) == q
PopRestTwo(q) == IF Len(q) >= 2 THEN Tail(Tail(q)) ELSE << >>
PopRest(q) == Tail(q)

\* thread_pool.cpp:34: the test that makes a worker return.
WorkerExits(s) == s

\* What a packaged_task stores when its callable returns ("ok") or throws.
Outcome(k) == IF k = "throw" THEN "failure" ELSE "value"

\* thread_pool.cpp:42-45 with the loop of line 27: where the worker goes
\* after running a task whose callable returned or threw.
\* packaged_task::operator() stores what the callable throws, so nothing
\* propagates into workerLoop.
AfterTaskDiesOnThrow(k) == IF k = "throw" THEN "Terminated" ELSE "top"
AfterTask(k) == "top"

\* thread_pool.cpp:30-31: acquire mutex_ and test the queue.
WLock(w) ==
    /\ Alive
    /\ wpc[w] = "top"
    /\ MutexFree(mutex_)
    /\ mutex_' = w
    /\ wpc' = [wpc EXCEPT ![w] = IF tasks_ = << >> THEN "waitEnter" ELSE "checkStop"]
    /\ UNCHANGED << tasks_, waiters, stop_, wtask, ppc, chan, runs, pushOrder,
                    runningAtDtor, ub >>
    /\ UNCHANGED poolVars
    /\ UNCHANGED futVars

\* thread_pool.cpp:32: cv_.wait releases mutex_ and blocks, atomically.
WWaitEnter(w) ==
    /\ Alive
    /\ wpc[w] = "waitEnter"
    /\ mutex_' = NoOwner
    /\ waiters' = waiters \cup {w}
    /\ wpc' = [wpc EXCEPT ![w] = "waiting"]
    /\ UNCHANGED << tasks_, stop_, wtask, ppc, chan, runs, pushOrder,
                    runningAtDtor, ub >>
    /\ UNCHANGED poolVars
    /\ UNCHANGED futVars

\* thread_pool.cpp:32: cv_.wait may unblock without a notification.
WSpuriousWake(w) ==
    /\ Alive
    /\ wpc[w] = "waiting"
    /\ w \in waiters
    /\ waiters' = waiters \ {w}
    /\ wpc' = [wpc EXCEPT ![w] = "woken"]
    /\ UNCHANGED << tasks_, mutex_, stop_, wtask, ppc, chan, runs, pushOrder,
                    runningAtDtor, ub >>
    /\ UNCHANGED poolVars
    /\ UNCHANGED futVars

\* thread_pool.cpp:32: the unblocked thread re-acquires mutex_ before
\* cv_.wait returns.
WReacquire(w) ==
    /\ Alive
    /\ wpc[w] = "woken"
    /\ MutexFree(mutex_)
    /\ mutex_' = w
    /\ wpc' = [wpc EXCEPT ![w] = "checkStop"]
    /\ UNCHANGED << tasks_, waiters, stop_, wtask, ppc, chan, runs, pushOrder,
                    runningAtDtor, ub >>
    /\ UNCHANGED poolVars
    /\ UNCHANGED futVars

\* thread_pool.cpp:34-36: return (the lock guard releases mutex_) or go on.
WCheckStop(w) ==
    /\ Alive
    /\ wpc[w] = "checkStop"
    /\ IF WorkerExits(stop_)
         THEN /\ wpc' = [wpc EXCEPT ![w] = "Terminated"]
              /\ mutex_' = NoOwner
         ELSE /\ wpc' = [wpc EXCEPT ![w] = "pop"]
              /\ UNCHANGED mutex_
    /\ UNCHANGED << tasks_, waiters, stop_, wtask, ppc, chan, runs, pushOrder,
                    runningAtDtor, ub >>
    /\ UNCHANGED poolVars
    /\ UNCHANGED futVars

\* thread_pool.cpp:37-41: pop if there is a task, then release mutex_.
WPop(w) ==
    /\ Alive
    /\ wpc[w] = "pop"
    /\ IF tasks_ # << >>
         THEN /\ wtask' = [wtask EXCEPT ![w] = Front(tasks_)]
              /\ tasks_' = PopRest(tasks_)
         ELSE UNCHANGED << wtask, tasks_ >>
    /\ mutex_' = NoOwner
    /\ wpc' = [wpc EXCEPT ![w] = "run"]
    /\ UNCHANGED << waiters, stop_, ppc, chan, runs, pushOrder, runningAtDtor, ub >>
    /\ UNCHANGED poolVars
    /\ UNCHANGED futVars

\* thread_pool.cpp:42-45 and the lambda of thread_pool.h:30: the task, if
\* one was popped, runs to its end; its callable returns or throws and the
\* packaged_task stores the outcome; the loop starts over.  None of this
\* touches the pool's members.
WRun(w) ==
    /\ Up
    /\ wpc[w] = "run"
    /\ IF wtask[w] # NoTask
         THEN \E k \in {"ok", "throw"} :
                /\ runs' = [runs EXCEPT ![wtask[w]] = @ + 1]
                /\ chan' = [chan EXCEPT ![wtask[w]] = Outcome(k)]
                /\ wpc' = [wpc EXCEPT ![w] = AfterTask(k)]
         ELSE /\ UNCHANGED << runs, chan >>
              /\ wpc' = [wpc EXCEPT ![w] = "top"]
    /\ wtask' = [wtask EXCEPT ![w] = NoTask]
    /\ UNCHANGED << tasks_, mutex_, waiters, stop_, ppc, pushOrder,
                    runningAtDtor, ub >>
    /\ UNCHANGED poolVars
    /\ UNCHANGED futVars

----------------------------------------------------------------------------
(* Destructor *)

\* Tasks a worker has popped and is executing.
Running == {wtask[w] : w \in {x \in Workers : wpc[x] = "run" /\ wtask[x] # NoTask}}

\* Tasks sitting in tasks_.
Queued == {tasks_[i] : i \in 1..Len(tasks_)}

\* thread_pool.cpp:13: stop_ is written without holding mutex_.
DtorSetStop ==
    /\ owner = "live"
    /\ stop_' = TRUE
    /\ owner' = "d_notify"
    /\ runningAtDtor' = Running
    /\ UNCHANGED << requested, workers_, wstate, tasks_, mutex_, waiters, wpc,
                    wtask, ppc, chan, runs, pushOrder, ub >>
    /\ UNCHANGED futVars

\* thread_pool.cpp:14
DtorNotifyAll ==
    /\ owner = "d_notify"
    /\ waiters' = {}
    /\ wpc' = [w \in Workers |-> IF w \in waiters THEN "woken" ELSE wpc[w]]
    /\ owner' = "d_detach"
    /\ UNCHANGED << requested, workers_, wstate, tasks_, mutex_, stop_, wtask,
                    ppc, chan, runs, pushOrder, runningAtDtor, ub >>
    /\ UNCHANGED futVars

\* thread_pool.cpp:15-19: what the destructor does with a joinable worker.
Release(st) == IF st = "joinable" THEN "detached" ELSE st

DtorDetach ==
    /\ owner = "d_detach"
    /\ wstate' = [w \in Workers |-> Release(wstate[w])]
    /\ owner' = "d_reclaim"
    /\ UNCHANGED << requested, workers_, tasks_, mutex_, waiters, stop_, wpc,
                    wtask, ppc, chan, runs, pushOrder, runningAtDtor, ub >>
    /\ UNCHANGED futVars

\* ~packaged_task on a task that was never invoked (the lambda of
\* thread_pool.h:30 destroyed with tasks_): the shared state is made ready
\* with a broken_promise failure.
DestroyedUnrunSilent(c) == c
DestroyedUnrun(c) == IF c = "empty" THEN "broken" ELSE c

\* thread_pool.cpp:20: the destructor returns and the members are destroyed
\* (thread_pool.h:41-45).  Each std::function left in tasks_ dies unrun, and
\* with it the last reference to its packaged_task, which stores
\* broken_promise in the shared state.  The callers of the pool do not let
\* it die while one of their own enqueue calls is inside it.
DtorReclaim ==
    /\ owner = "d_reclaim"
    /\ \A t \in Tasks : ppc[t] \in {"idle", "rejected", "done"}
    /\ chan' = [t \in Tasks |-> IF t \in Queued THEN DestroyedUnrun(chan[t])
                                                ELSE chan[t]]
    /\ tasks_' = << >>
    /\ owner' = "done"
    /\ UNCHANGED << requested, workers_, wstate, mutex_, waiters, stop_, wpc,
                    wtask, ppc, runs, pushOrder, runningAtDtor, ub >>
    /\ UNCHANGED futVars

\* Positions of workerLoop whose next statement uses mutex_, cv_, tasks_ or
\* stop_.
TouchesPool == {"top", "waitEnter", "waiting", "woken", "checkStop", "pop"}

\* A detached worker goes on after the members are gone
\* (thread_pool.cpp:15-19 against 30-41): undefined behaviour.  The worker
\* may leave the loop, stay blocked for good, or bring the process down (a
\* fault, or a failed lock whose std::system_error leaves the thread
\* function and ends in std::terminate).
UseAfterFree(w) ==
    /\ owner = "done"
    /\ wpc[w] \in TouchesPool
    /\ ub' = TRUE
    /\ \E out \in {"Terminated", "hung", "abort"} :
         IF out = "abort"
           THEN owner' = "aborted" /\ UNCHANGED wpc
           ELSE wpc' = [wpc EXCEPT ![w] = out] /\ UNCHANGED owner
    /\ UNCHANGED << requested, workers_, wstate, tasks_, mutex_, waiters, stop_,
                    wtask, ppc, chan, runs, pushOrder, runningAtDtor >>
    /\ UNCHANGED futVars

----------------------------------------------------------------------------
(* std::future, the handle returned by enqueue (thread_pool.h:18, 33) *)

\* The shared state holds an outcome.
ReadyAlways(c) == TRUE
Ready(c) == c \in {"value", "failure", "broken"}

\* State of a future after get(): std::future::get releases the shared state.
AfterGetStaysValid == "valid"
AfterGet == "invalid"

\* future::get on a valid future: blocks until the shared state is ready,
\* returns the value or rethrows the stored exception, and leaves the future
\* without a shared state.
Get(t) ==
    /\ Up
    /\ handle[t] = "valid"
    /\ Len(gets[t]) < MaxGets
    /\ Ready(chan[t])
    /\ gets' = [gets EXCEPT ![t] = Append(@, chan[t])]
    /\ handle' = [handle EXCEPT ![t] = AfterGet]
    /\ UNCHANGED << tasks_, mutex_, waiters, stop_, wpc, wtask, ppc, chan,
                    runs, pushOrder, runningAtDtor, ub >>
    /\ UNCHANGED poolVars

\* future::get on a future whose valid() is false: undefined behaviour.
\* Library builds throw future_error(no_state) or fault on the missing
\* shared state.
GetAgain(t) ==
    /\ Up
    /\ handle[t] = "invalid"
    /\ Len(gets[t]) < MaxGets
    /\ \E r \in {"no_state", "fault"} :
         gets' = [gets EXCEPT ![t] = Append(@, r)]
    /\ UNCHANGED << tasks_, mutex_, waiters, stop_, wpc, wtask, ppc, chan,
                    handle, runs, pushOrder, runningAtDtor, ub >>
    /\ UNCHANGED poolVars

----------------------------------------------------------------------------
(* The program *)

Next ==
    \/ CtorSpawn
    \/ CtorDone
    \/ CtorSpawnFail
    \/ \E t \in Tasks : EnqueueLock(t)
    \/ \E t \in Tasks : EnqueueCheck(t)
    \/ \E t \in Tasks : EnqueueNotify(t)
    \/ \E t \in Tasks : EnqueueReturn(t)
    \/ \E w \in Workers : WLock(w)
    \/ \E w \in Workers : WWaitEnter(w)
    \/ \E w \in Workers : WSpuriousWake(w)
    \/ \E w \in Workers : WReacquire(w)
    \/ \E w \in Workers : WCheckStop(w)
    \/ \E w \in Workers : WPop(w)
    \/ \E w \in Workers : WRun(w)
    \/ DtorSetStop
    \/ DtorNotifyAll
    \/ DtorDetach
    \/ DtorReclaim
    \/ \E w \in Workers : UseAfterFree(w)
    \/ \E t \in Tasks : Get(t)
    \/ \E t \in Tasks : GetAgain(t)

Spec == Init /\ [][Next]_vars

----------------------------------------------------------------------------
(* A pool that is never destroyed, under fair scheduling.  Every thread    *)
(* that can take a step is eventually scheduled; a spurious wake-up and    *)
(* the calls of enqueue and get are not owed to anybody.                   *)

WorkerStep(w) ==
    \/ WLock(w)
    \/ WWaitEnter(w)
    \/ WReacquire(w)
    \/ WCheckStop(w)
    \/ WPop(w)
    \/ WRun(w)

ProducerStep(t) ==
    \/ EnqueueCheck(t)
    \/ EnqueueNotify(t)
    \/ EnqueueReturn(t)

LiveNext ==
    \/ CtorSpawn
    \/ CtorDone
    \/ \E t \in Tasks : EnqueueLock(t)
    \/ \E t \in Tasks : EnqueueCheck(t)
    \/ \E t \in Tasks : EnqueueNotify(t)
    \/ \E t \in Tasks : EnqueueReturn(t)
    \/ \E w \in Workers : WLock(w)
    \/ \E w \in Workers : WWaitEnter(w)
    \/ \E w \in Workers : WSpuriousWake(w)
    \/ \E w \in Workers : WReacquire(w)
    \/ \E w \in Workers : WCheckStop(w)
    \/ \E w \in Workers : WPop(w)
    \/ \E w \in Workers : WRun(w)
    \/ \E t \in Tasks : Get(t)

Fairness ==
    /\ WF_vars(CtorSpawn \/ CtorDone)
    /\ \A w \in Workers : WF_vars(WorkerStep(w))
    /\ \A t \in Tasks : WF_vars(ProducerStep(t))

LiveSpec == Init /\ [][LiveNext]_vars /\ Fairness

----------------------------------------------------------------------------
(* The pool with its destructor, under fair scheduling.  A destructor that *)
(* has begun runs to its end and every thread that can take a step is      *)
(* eventually scheduled; nobody owes a spurious wake-up, a call of enqueue *)
(* or of the destructor, a failing thread start, or a particular outcome   *)
(* of undefined behaviour.                                                 *)

DtorStep ==
    \/ DtorNotifyAll
    \/ DtorDetach
    \/ DtorReclaim

ShutdownNext ==
    \/ CtorSpawn
    \/ CtorDone
    \/ CtorSpawnFail
    \/ \E t \in Tasks : EnqueueLock(t)
    \/ \E t \in Tasks : EnqueueCheck(t)
    \/ \E t \in Tasks : EnqueueNotify(t)
    \/ \E t \in Tasks : EnqueueReturn(t)
    \/ \E w \in Workers : WLock(w)
    \/ \E w \in Workers : WWaitEnter(w)
    \/ \E w \in Workers : WSpuriousWake(w)
    \/ \E w \in Workers : WReacquire(w)
    \/ \E w \in Workers : WCheckStop(w)
    \/ \E w \in Workers : WPop(w)
    \/ \E w \in Workers : WRun(w)
    \/ DtorSetStop
    \/ DtorNotifyAll
    \/ DtorDetach
    \/ DtorReclaim
    \/ \E w \in Workers : UseAfterFree(w)

ShutdownFairness ==
    /\ WF_vars(CtorSpawn \/ CtorDone)
    /\ WF_vars(DtorStep)
    /\ \A w \in Workers : WF_vars(WorkerStep(w))
    /\ \A t \in Tasks : WF_vars(ProducerStep(t))

ShutdownSpec == Init /\ [][ShutdownNext]_vars /\ ShutdownFairness

----------------------------------------------------------------------------
(* Properties *)

\* Tasks accepted by enqueue (emplaced into tasks_).
Accepted == {pushOrder[i] : i \in 1..Len(pushOrder)}

\* Position of an accepted task in the order of emplace.
Pos(t) == CHOOSE i \in 1..Len(pushOrder) : pushOrder[i] = t

\* A worker has taken the task out of tasks_.
Dequeued(t) == runs[t] >= 1 \/ \E w \in Workers : wtask[w] = t

\* The first get() on the task's future has returned.
Got(t) == Len(gets[t]) >= 1

RECURSIVE SumRuns(_)
SumRuns(S) == IF S = {} THEN 0
              ELSE LET t == CHOOSE x \in S : TRUE IN runs[t] + SumRuns(S \ {t})

\* Number of task executions so far.
Executions == SumRuns(Tasks)

\* Every spawned worker has left workerLoop.
AllWorkersExited ==
    /\ owner # "ctor"
    /\ \A w \in 1..Len(workers_) : wpc[w] = "Terminated"

\* C1: on a live pool no task is ever executed twice, and once get() has
\* returned on the future of every accepted task, the number of executions
\* equals the number of accepted tasks.
C1_ExactlyOnce ==
    /\ \A t \in Tasks : runs[t] <= 1
    /\ (owner = "live" /\ \A t \in Accepted : Got(t))
          => Executions = Len(pushOrder)

C1_Witness ==
    /\ owner = "live"
    /\ Len(pushOrder) = NumTasks
    /\ \A t \in Tasks : Got(t)
    /\ Len(workers_) = MaxThreads

\* C2: once the destructor has returned, every task that a worker was
\* executing when the destructor began has finished.
C2_DtorWaitsForRunning ==
    owner = "done" => \A t \in runningAtDtor : runs[t] >= 1

\* C3: no task that sits in the queue during shutdown is discarded: when
\* all workers have left their loop the queue is empty, and no queued task
\* is ever destroyed unrun.
C3_DrainOnShutdown ==
    /\ AllWorkersExited => tasks_ = << >>
    /\ \A t \in Tasks : chan[t] # "broken"

\* C4: an enqueue that finds stop_ set throws, leaves tasks_ as it was and
\* never returns a future; an enqueue that finds stop_ clear appends exactly
\* its one task.
C4_RejectWhenStopping ==
    [][\A t \in Tasks :
          /\ (ppc[t] = "e_check" /\ ppc'[t] # "e_check") =>
                IF stop_
                  THEN ppc'[t] = "rejected" /\ tasks_' = tasks_
                  ELSE ppc'[t] = "e_notify" /\ tasks_' = Append(tasks_, t)
          /\ ppc[t] = "rejected" => (ppc'[t] = "rejected" /\ handle'[t] = "none")
      ]_vars

C4_Witness ==
    \E t, u \in Tasks :
       /\ ppc[t] = "rejected" /\ handle[t] = "none" /\ t \notin Accepted
       /\ u \in Accepted
       /\ owner # "done"

\* C5: (pool not being destroyed, fair scheduling) a task whose callable
\* throws has the failure stored in its shared state, get() on its future
\* rethrows it, the worker that ran it goes back to the top of its loop with
\* the queue untouched, and every task queued behind the failing one is
\* still executed.
C5_FailureIsolated ==
    /\ [][\A w \in Workers :
            (wtask[w] # NoTask /\ wtask'[w] = NoTask
                 /\ chan'[wtask[w]] = "failure")
              => (wpc'[w] = "top" /\ tasks_' = tasks_ /\ mutex_' = mutex_)]_vars
    /\ [](\A t \in Tasks : (Got(t) /\ runs[t] >= 1)
              => (gets[t][1] = chan[t] /\ chan[t] \in {"value", "failure"}))
    /\ \A t \in Tasks :
         (t \in Queued /\ \E f \in Accepted : chan[f] = "failure" /\ Pos(f) < Pos(t))
            ~> (runs[t] = 1)

C5_Witness ==
    \E f, t \in Tasks :
       /\ chan[f] = "failure" /\ Got(f) /\ gets[f][1] = "failure"
       /\ f \in Accepted /\ t \in Accepted /\ Pos(f) < Pos(t)
       /\ runs[t] = 1
       /\ Len(workers_) = 1

\* C6: (pool not being destroyed, fair scheduling) every accepted task is
\* eventually executed.
C6_NoLostWakeup ==
    \A t \in Tasks : (t \in Accepted) ~> (runs[t] = 1)

\* A task is queued while a worker that has already run an earlier task is
\* back inside cv_.wait.
C6_Witness ==
    \E t, u \in Tasks, w \in Workers :
       /\ runs[u] = 1
       /\ t \in Queued
       /\ w \in waiters
       /\ Len(workers_) = 1

\* C7: tasks leave the queue in the order they entered it: a task is never
\* dequeued (let alone started) while a task emplaced before it is still
\* waiting to be dequeued.
C7_Fifo ==
    \A i, j \in 1..Len(pushOrder) :
       (i < j /\ Dequeued(pushOrder[j])) => Dequeued(pushOrder[i])

C7_Witness ==
    /\ Len(pushOrder) = 2
    /\ \E w \in Workers : wtask[w] = pushOrder[2] /\ wpc[w] = "run"
    /\ \E w \in Workers : wtask[w] = pushOrder[1] /\ wpc[w] = "run"

\* C8: from the end of construction on, size() is the requested count, or 1
\* when 0 was requested, whatever the pool has done since.
C8_SizeStable ==
    (owner # "ctor" /\ Alive)
       => size = (IF requested > 0 THEN requested ELSE 1)

C8_Witness ==
    /\ requested = 0
    /\ size = 1
    /\ \E t \in Tasks : runs[t] = 1
    /\ \E w \in Workers : wpc[w] = "Terminated"

\* C9 as stated: every get() call on a future, the second and later ones
\* included, returns the outcome stored in the shared state.
C9_RepeatableGet ==
    \A t \in Tasks : \A i \in 1..Len(gets[t]) : gets[t][i] = chan[t]

\* C9 amended: the first get() returns the stored outcome and leaves the
\* future invalid.
C9_FirstGetConsumes ==
    \A t \in Tasks : Got(t) => (gets[t][1] = chan[t] /\ handle[t] = "invalid")

C9_Witness ==
    \E t \in Tasks : Len(gets[t]) = 2 /\ gets[t][1] = "failure"

\* C10: get() never returns before the outcome is written: whenever a get()
\* has returned, the shared state holds a value or a failure.
C10_GetAfterWrite ==
    \A t \in Tasks :
       Got(t) => (chan[t] \in {"value", "failure", "broken"} /\ gets[t][1] # "empty")

C10_Witness ==
    /\ \E t \in Tasks : Got(t) /\ chan[t] = "value"
    /\ \E t \in Tasks : ~Got(t) /\ handle[t] = "valid" /\ chan[t] = "empty"

\* The spawned workers.
Spawned == 1..Len(workers_)

\* C11: (fair scheduling) once the destructor has set stop_ and called
\* notify_all, every worker eventually reaches Terminated, as long as the
\* process runs.
C11_AllWorkersTerminate ==
    \A w \in Workers :
       (owner = "d_detach" /\ w \in Spawned)
          ~> (wpc[w] = "Terminated" \/ ~Up)

\* C12: a worker leaves its loop (becomes Terminated) only in a state where
\* stop_ is true and tasks_ is empty.
C12_ExitOnlyWhenDrained ==
    [][\A w \in Workers :
          (wpc[w] # "Terminated" /\ wpc'[w] = "Terminated")
             => (stop_ /\ tasks_ = <<>>)]_vars

\* C13: whenever the destructor has completed, every spawned worker is
\* Terminated, and no worker has touched the pool's members after the pool
\* object was destroyed.
C13_DtorJoins ==
    (owner \in {"done", "aborted"} /\ stop_)
       => (/\ \A w \in Spawned : wpc[w] = "Terminated"
           /\ ~ub)

\* C14: stop_ and tasks_ are read and written only by the thread that holds
\* mutex_: no step changes stop_ while a worker holds mutex_ (in particular
\* not while a worker is between its empty test and its wait), and tasks_
\* changes only in a step of the thread holding mutex_.
C14_AccessUnderMutex ==
    [][/\ (stop_' # stop_) => (\A w \in Workers : mutex_ # w)
       /\ (tasks_' # tasks_ /\ owner' # "done") => mutex_ # NoOwner]_vars

\* The threads inside a critical section of mutex_, by their position in
\* the code: a worker between its lock and its unlock or wait, a producer
\* between its lock and its unlock.
InCritical ==
    {w \in Workers : wpc[w] \in {"waitEnter", "checkStop", "pop"}}
       \cup {ProducerId(t) : t \in {u \in Tasks : ppc[u] = "e_check"}}

\* C15: while the pool exists at most one thread is inside a critical section
\* of mutex_, that thread is the one recorded as holding it, and a worker that
\* is executing a task does not hold mutex_.
C15_MutualExclusion ==
    Alive =>
       /\ Cardinality(InCritical) <= 1
       /\ \A x \in InCritical : mutex_ = x
       /\ \A w \in Workers : wpc[w] = "run" => mutex_ # w

\* A worker executes a task while another thread holds mutex_.
C15_Witness ==
    \E w \in Workers :
       /\ Alive
       /\ wpc[w] = "run"
       /\ wtask[w] # NoTask
       /\ mutex_ \notin {NoOwner, w}

\* C16: a worker takes a task only in its pop step, holding mutex_, from a
\* non-empty queue, and then exactly the front one; a pop step that finds the
\* queue empty takes nothing, and the iteration then executes nothing; no
\* step of a live pool shortens the queue by more than one task.
C16_PopOnlyNonEmpty ==
    [][/\ \A w \in Workers :
             /\ (wtask'[w] # wtask[w] /\ wtask'[w] # NoTask)
                   => /\ wpc[w] = "pop"
                      /\ mutex_ = w
                      /\ tasks_ # << >>
                      /\ wtask'[w] = Head(tasks_)
                      /\ tasks_' = Tail(tasks_)
             /\ (wpc[w] = "pop" /\ wpc'[w] = "run" /\ tasks_ = << >>)
                   => (wtask'[w] = NoTask /\ tasks_' = << >>)
             /\ (wpc[w] = "run" /\ wpc'[w] # "run" /\ wtask[w] = NoTask)
                   => (runs' = runs /\ chan' = chan)
       /\ (owner' # "done") => Len(tasks_') >= Len(tasks_) - 1]_vars

\* A worker woke up, found the queue empty in its pop step because another
\* worker had taken the task, and holds no task in its run step.
C16_Witness ==
    \E w \in Workers :
       /\ Alive
       /\ wpc[w] = "run"
       /\ wtask[w] = NoTask
       /\ \E t \in Tasks : runs[t] = 1

\* What a result channel holds once it has been written.
Outcomes == {"value", "failure", "broken"}

\* C17: a channel receives an outcome only once, and only from the worker
\* that dequeued the task and is running it; a written channel never changes.
C17_SingleWriter ==
    [][\A t \in Tasks :
          /\ (chan[t] \in Outcomes) => (chan'[t] = chan[t])
          /\ (chan[t] \notin Outcomes /\ chan'[t] \in Outcomes)
                => /\ chan[t] = "empty"
                   /\ \E w \in Workers :
                         /\ wpc[w] = "run"
                         /\ wtask[w] = t
                         /\ wpc'[w] # "run"]_vars

\* C18: a constructor that does not complete fails with an error the caller
\* can catch, and at that moment every worker it had started has been
\* joined (is Terminated).
C18_CtorAllOrNothing ==
    [][(owner = "ctor" /\ owner' \notin {"ctor", "live"})
          => /\ owner' = "failed"
             /\ \A w \in Workers : wpc'[w] \in {"unborn", "Terminated"}]_vars

\* C19: (fair scheduling) get() on the handle of an accepted task never
\* blocks forever in a running process: the task's channel eventually holds
\* an outcome, the value or failure written by the worker that ran the task,
\* or the broken promise stored when the queued task is destroyed unrun.
C19_GetNeverBlocksForever ==
    \A t \in Tasks : (t \in Accepted) ~> (chan[t] \in Outcomes \/ ~Up)

\* The pool has been destroyed with one task still queued, whose channel
\* holds the broken promise, and the other task has been run by a worker.
C19_Witness ==
    /\ Up
    /\ owner = "done"
    /\ \E t \in Tasks : chan[t] = "broken"
    /\ \E t \in Tasks : chan[t] \in {"value", "failure"}

====
